---- MODULE Spec2Model ----
(***************************************************************************)
(* A model of cardano_node_tests/utils/clusterlib.py: the ClusterLib       *)
(* wrapper around the cardano-cli tool.                                    *)
(*                                                                         *)
(* Text.  A Python string is a sequence of fragments; a fragment is either *)
(* one character or a literal piece that the code never looks into         *)
(* ("--tx-in", "tx.body").  Concatenation and f-string interpolation are   *)
(* \o, str(n) is ToStr(n) (decimal digits), str.split and int() work on    *)
(* the fragments, so formatting and parsing are computed, not assumed.     *)
(*                                                                         *)
(* Steps.  Every method blocks on one subprocess at a time.  An action is  *)
(* the code of a method from one blocking point to the next: the glue      *)
(* before a subprocess, the subprocess, and the handling of its result.    *)
(***************************************************************************)
EXTENDS Integers, Sequences, FiniteSets, TLC

----------------------------------------------------------------------------
(* Bounds of the model. *)

\* largest lovelace amount of one UTXO entry or one caller-supplied output
MaxAmount == 2
\* longest caller-supplied output list
MaxTxOuts == 2
\* longest input list given to build_tx directly
MaxTxIns == 2
\* largest fee given to build_tx directly
MaxFee == 2
\* longest stdout of calculate-min-fee, in characters
MaxStdoutLen == 3
\* longest item list given to prepend_flag directly
MaxItems == 3
\* exit codes of the tool are 0..MaxReturnCode
MaxReturnCode == 1
\* slot numbers reported by the tip query are 0..MaxSlot
MaxSlot == 2

----------------------------------------------------------------------------
(* Text *)

\* a literal piece of text
S(x) == <<x>>

\* None, and also the empty string: both are falsy
None == <<>>

Digits == <<"0", "1", "2", "3", "4", "5", "6", "7", "8", "9">>

\* str(n) of an int
RECURSIVE ToStr(_)
ToStr(n) ==
  IF n < 0 THEN <<"-">> \o ToStr(-n)
  ELSE IF n < 10 THEN <<Digits[n + 1]>>
  ELSE ToStr(n \div 10) \o <<Digits[(n % 10) + 1]>>

\* the characters str.strip(), str.rstrip() and int() treat as whitespace
Whitespace == {" ", "\t", "\n", "\r"}

\* s.split(sep) for a one-character sep: the pieces between the separators
RECURSIVE split(_, _)
split(s, sep) ==
  IF \A i \in 1..Len(s) : s[i] # sep THEN <<s>>
  ELSE LET i == CHOOSE k \in 1..Len(s) :
                  s[k] = sep /\ \A j \in 1..(k - 1) : s[j] # sep
       IN  <<SubSeq(s, 1, i - 1)>> \o split(SubSeq(s, i + 1, Len(s)), sep)

RECURSIVE rstrip(_)
rstrip(s) ==
  IF s # <<>> /\ s[Len(s)] \in Whitespace
  THEN rstrip(SubSeq(s, 1, Len(s) - 1)) ELSE s

RECURSIVE lstrip(_)
lstrip(s) == IF s # <<>> /\ Head(s) \in Whitespace THEN lstrip(Tail(s)) ELSE s

DigitValue(ch) == (CHOOSE k \in 1..10 : Digits[k] = ch) - 1

IsDigit(ch) == \E k \in 1..10 : Digits[k] = ch

RECURSIVE DecimalValue(_)
DecimalValue(s) ==
  IF s = <<>> THEN 0
  ELSE 10 * DecimalValue(SubSeq(s, 1, Len(s) - 1)) + DigitValue(s[Len(s)])

\* int(s): surrounding whitespace is dropped, then an optional sign and one or
\* more decimal digits; anything else raises ValueError (ok = FALSE)
int(s) ==
  LET t == lstrip(rstrip(s))
      signed == t # <<>> /\ Head(t) \in {"-", "+"}
      d == IF signed THEN Tail(t) ELSE t
  IN  IF d # <<>> /\ \A i \in 1..Len(d) : IsDigit(d[i])
      THEN [ok |-> TRUE,
            val |-> IF signed /\ Head(t) = "-" THEN -DecimalValue(d)
                    ELSE DecimalValue(d)]
      ELSE [ok |-> FALSE, val |-> 0]

\* all sequences over S of length at most n
RECURSIVE SeqsUpTo(_, _)
SeqsUpTo(A, n) ==
  IF n = 0 THEN {<<>>}
  ELSE LET shorter == SeqsUpTo(A, n - 1)
       IN  shorter \cup {Append(s, x) : s \in shorter, x \in A}

\* sum of f[i] for a sequence of integers
RECURSIVE SumSeq(_)
SumSeq(s) == IF s = <<>> THEN 0 ELSE Head(s) + SumSeq(Tail(s))

----------------------------------------------------------------------------
(* Argument lists *)

\* a prepend_flag that puts each item before its flag
RECURSIVE prepend_flag_swapped(_, _)
prepend_flag_swapped(flag, contents) ==
  IF contents = <<>> THEN <<>>
  ELSE prepend_flag_swapped(flag, SubSeq(contents, 1, Len(contents) - 1))
         \o <<contents[Len(contents)], flag>>

\* prepend_flag: sum(([flag, x] for x in contents), []), a left fold of list +
RECURSIVE prepend_flag(_, _)
prepend_flag(flag, contents) ==
  IF contents = <<>> THEN <<>>
  ELSE prepend_flag(flag, SubSeq(contents, 1, Len(contents) - 1))
         \o <<flag, contents[Len(contents)]>>

\* the values that follow `flag` in an argument list
RECURSIVE values_of(_, _)
values_of(args, flag) ==
  IF Len(args) < 2 THEN <<>>
  ELSE IF args[1] = flag THEN <<args[2]>> \o values_of(SubSeq(args, 3, Len(args)), flag)
  ELSE values_of(Tail(args), flag)

\* query_cli: the argument list it hands to cli
query_cli_args(network_magic, cli_args) ==
  <<S("cardano-cli"), S("shelley"), S("query")>>
    \o cli_args
    \o <<S("--testnet-magic"), ToStr(network_magic)>>

\* self.pparams_file, below the state directory
pparams_file == S("pparams.json")

refresh_pparams_args(network_magic) ==
  query_cli_args(network_magic,
                 <<S("protocol-parameters"), S("--out-file"), pparams_file>>)

get_utxo_args(network_magic, address) ==
  query_cli_args(network_magic,
                 <<S("utxo"), S("--address"), address, S("--out-file"), S("utxo.json")>>)

get_tip_args(network_magic) == query_cli_args(network_magic, <<S("tip")>>)

get_genesis_addr_args(network_magic, vkey_path) ==
  <<S("cardano-cli"), S("shelley"), S("genesis"), S("initial-addr"),
    S("--testnet-magic"), ToStr(network_magic),
    S("--verification-key-file"), vkey_path>>

estimate_fee_args(network_magic, txbody_file, txins, txouts, witnesses, byron_witnesses) ==
  <<S("cardano-cli"), S("shelley"), S("transaction"), S("calculate-min-fee"),
    S("--testnet-magic"), ToStr(network_magic),
    S("--protocol-params-file"), pparams_file,
    S("--tx-in-count"), ToStr(txins),
    S("--tx-out-count"), ToStr(txouts),
    S("--byron-witness-count"), ToStr(byron_witnesses),
    S("--witness-count"), ToStr(witnesses),
    S("--tx-body-file"), txbody_file>>

\* estimate_fee, after the tool: fee, *__ = stdout.decode().split(" "); int(fee)
estimate_fee_parse(stdout) == int(split(stdout, " ")[1])

\* TODO in the source: calculate from current tip
ttl == 100000

\* [f"{x[0]}#{x[1]}" for x in txins]
txins_combined(txins) == [i \in 1..Len(txins) |-> txins[i][1] \o <<"#">> \o txins[i][2]]

\* [f"{x[0]}+{x[1]}" for x in txouts_copy]
txouts_combined(txouts_copy) ==
  [i \in 1..Len(txouts_copy) |-> txouts_copy[i][1] \o <<"+">> \o ToStr(txouts_copy[i][2])]

\* get_tx_fee: the output list of the draft, the caller's outputs and a zero change
get_tx_fee_txouts(genesis_utxo_addr, txouts) == Append(txouts, <<genesis_utxo_addr, 0>>)

\* get_tx_fee: the arguments of the zero-fee draft
get_tx_fee_args(genesis_utxo_addr, txins, txouts, certificates, proposal_file) ==
  <<S("cardano-cli"), S("shelley"), S("transaction"), S("build-raw"),
    S("--ttl"), ToStr(ttl), S("--fee"), S("0"), S("--out-file"), S("tx.body_estimate")>>
    \o prepend_flag(S("--tx-in"), txins_combined(txins))
    \o prepend_flag(S("--tx-out"),
                    txouts_combined(get_tx_fee_txouts(genesis_utxo_addr, txouts)))
    \o prepend_flag(S("--certificate-file"), certificates)
    \o (IF proposal_file # None THEN <<S("--update-proposal-file"), proposal_file>>
        ELSE <<>>)

\* build_tx: functools.reduce(lambda x, y: x + y[2], txins, 0)
total_input_amount(txins) == SumSeq([i \in 1..Len(txins) |-> txins[i][3]])

deposit_amount == 0

\* a build_tx that leaves the change output as it was appended, with amount 0
build_tx_txouts_zero_change(genesis_utxo_addr, txins, txouts, fee) ==
  Append(txouts, <<genesis_utxo_addr, 0>>)

\* build_tx: txouts_copy, the caller's outputs and then the change output
build_tx_txouts(genesis_utxo_addr, txins, txouts, fee) ==
  LET txouts_copy == Append(txouts, <<genesis_utxo_addr, 0>>)
  IN  [txouts_copy EXCEPT ![Len(txouts_copy)] =
         <<genesis_utxo_addr, total_input_amount(txins) - fee - deposit_amount>>]

build_tx_args(genesis_utxo_addr, out_file, txins, txouts, certificates, fee, proposal_file) ==
  <<S("cardano-cli"), S("shelley"), S("transaction"), S("build-raw"),
    S("--ttl"), ToStr(ttl), S("--fee"), ToStr(fee), S("--out-file"), out_file>>
    \o prepend_flag(S("--tx-in"), txins_combined(txins))
    \o prepend_flag(S("--tx-out"),
                    txouts_combined(build_tx_txouts(genesis_utxo_addr, txins, txouts, fee)))
    \o prepend_flag(S("--certificate-file"), certificates)
    \o (IF proposal_file # None THEN <<S("--update-proposal-file"), proposal_file>>
        ELSE <<>>)

sign_tx_args(network_magic, tx_body_file, out_file, signing_keys) ==
  <<S("cardano-cli"), S("shelley"), S("transaction"), S("sign"),
    S("--tx-body-file"), tx_body_file, S("--out-file"), out_file,
    S("--testnet-magic"), ToStr(network_magic)>>
    \o prepend_flag(S("--signing-key-file"), signing_keys)

submit_tx_args(network_magic, tx_file) ==
  <<S("cardano-cli"), S("shelley"), S("transaction"), S("submit"),
    S("--testnet-magic"), ToStr(network_magic), S("--tx-file"), tx_file>>

----------------------------------------------------------------------------
(* Errors *)

NoContext == [utxo |-> <<>>, txins |-> <<>>, txouts |-> <<>>, signing_keys |-> <<>>]

\* an exception: its class, the fixed text of its message, and what the message
\* interpolates (the arguments and stderr of a failed command, or a path)
Error(type, what, args, stderr, path) ==
  [type |-> type, what |-> what, args |-> args, stderr |-> stderr, path |-> path,
   wrapped |-> FALSE, context |-> NoContext]

NoError == Error("none", "", <<>>, "", None)

----------------------------------------------------------------------------
(* The state directory *)

state_dir == S("state-cluster")

genesis_json == S("keys/genesis.json")
genesis_utxo_vkey == S("keys/genesis-utxo.vkey")
genesis_utxo_skey == S("keys/genesis-utxo.skey")
genesis_vkey == S("keys/genesis-keys/genesis1.vkey")
delegate_skey == S("keys/delegate-keys/delegate1.skey")

\* the files check_state_dir looks for, in its order
RequiredFiles ==
  <<genesis_json, genesis_utxo_vkey, genesis_utxo_skey, genesis_vkey, delegate_skey>>

\* a check_state_dir whose loop misses the last file of its tuple
check_state_dir_short(d) ==
  IF ~d.state_dir
  THEN Error("CLIError", "The state dir doesn't exist.", <<>>, "", state_dir)
  ELSE IF \E i \in 1..(Len(RequiredFiles) - 1) : RequiredFiles[i] \notin d.present
  THEN LET i == CHOOSE k \in 1..(Len(RequiredFiles) - 1) :
                  /\ RequiredFiles[k] \notin d.present
                  /\ \A j \in 1..(k - 1) : RequiredFiles[j] \in d.present
       IN  Error("CLIError", "The file doesn't exist.", <<>>, "", RequiredFiles[i])
  ELSE NoError

\* check_state_dir on a directory d: the error it raises, NoError when it returns
check_state_dir(d) ==
  IF ~d.state_dir
  THEN Error("CLIError", "The state dir doesn't exist.", <<>>, "", state_dir)
  ELSE IF \E i \in 1..Len(RequiredFiles) : RequiredFiles[i] \notin d.present
  THEN LET i == CHOOSE k \in 1..Len(RequiredFiles) :
                  /\ RequiredFiles[k] \notin d.present
                  /\ \A j \in 1..(k - 1) : RequiredFiles[j] \in d.present
       IN  Error("CLIError", "The file doesn't exist.", <<>>, "", RequiredFiles[i])
  ELSE NoError

----------------------------------------------------------------------------
(* The subprocess *)

\* a cli that starts the command a second time when it has failed
cli_retry(cli_args, returncode, stdout, stderr) ==
  [started |-> IF returncode # 0
               THEN <<[args |-> cli_args, returncode |-> returncode],
                      [args |-> cli_args, returncode |-> returncode]>>
               ELSE <<[args |-> cli_args, returncode |-> returncode]>>,
   raised  |-> returncode # 0,
   out     |-> [stdout |-> stdout, stderr |-> stderr],
   err     |-> IF returncode # 0
               THEN Error("CLIError", "An error occurred running a CLI command",
                          cli_args, stderr, None)
               ELSE NoError]

\* cli(cli_args), given what the process did: the processes it started, and
\* either the CLIOut it returns or the CLIError it raises
cli(cli_args, returncode, stdout, stderr) ==
  [started |-> <<[args |-> cli_args, returncode |-> returncode]>>,
   raised  |-> returncode # 0,
   out     |-> [stdout |-> stdout, stderr |-> stderr],
   err     |-> IF returncode # 0
               THEN Error("CLIError", "An error occurred running a CLI command",
                          cli_args, stderr, None)
               ELSE NoError]

ReturnCodes == 0..MaxReturnCode

\* what the tool may write to stderr
Stderrs == {"", "boom"}

----------------------------------------------------------------------------
(* State *)

Callers == {"c1", "c2"}

\* the artifacts in the working directory, and pparams.json of the state directory
FileNames ==
  {"tx.body_estimate", "tx.body", "tx.signed", "utxo.json", "update.proposal",
   "pparams.json"}

VARIABLES
  disk,        \* the state directory: whether it exists, the required files in it
  files,       \* per artifact: who wrote it last, from what, and its content
  discipline,  \* how the callers use the working directory
  pc,          \* per caller: the subprocess it is about to run, or where it rests
  op,          \* per caller: the method the caller invoked
  self,        \* per caller: the attributes of its ClusterLib object
  frame,       \* per caller: arguments and locals of the running method
  spawned,     \* per caller: the subprocesses started since the method was invoked
  proc,        \* per caller: the last subprocess, as communicate() left it
  ret,         \* per caller: the value the method returned
  err          \* per caller: the exception that reached the caller

vars == <<disk, files, discipline, pc, op, self, frame, spawned, proc, ret, err>>

\* tag: the caller whose method call, not yet over, wrote the file, or "old"
\* for what the directory held before, a leftover of any earlier call, of which
\* the model keeps nothing; src: the tag, at that time, of the file it was made
\* from; data: the content, where the code reads it (utxo.json)
File(tag, src, data) == [tag |-> tag, src |-> src, data |-> data]

NoFrame ==
  [txins |-> <<>>, txouts |-> <<>>, certificates |-> <<>>, signing_keys |-> <<>>,
   proposal_file |-> None, out_file |-> None, utxo |-> <<>>, fee |-> 0,
   txbody_file |-> None, counts |-> <<>>, address |-> None,
   payment_vkey |-> None, stake_vkey |-> None, cli_args |-> <<>>, epoch |-> 0,
   flag |-> None, contents |-> <<>>]

NoSelf ==
  [network_magic |-> 0, genesis |-> [slotLength |-> 0, epochLength |-> 0],
   genesis_utxo_addr |-> None, pparams |-> "None"]

NoProc == [args |-> <<>>, returncode |-> 0, stdout |-> <<>>, stderr |-> ""]

\* a method call by c is over: what it wrote is from now on old
Expire(fs, c) ==
  [f \in FileNames |->
     IF fs[f].tag = c THEN File("old", "none", <<>>)
     ELSE [fs[f] EXCEPT !.src = IF @ = c THEN "old" ELSE @]]

\* the tool wrote file `name` in a method call of c
Written(fs, name, c, src, data) == [fs EXCEPT ![name] = File(c, src, data)]

\* the tags of the input files a subprocess opens
Reads(fs, names) == [i \in 1..Len(names) |-> fs[names[i][1]].tag]

NetworkMagics == {42}

Genesis == {[slotLength |-> 1, epochLength |-> 2]}

\* what `genesis initial-addr` prints
GenesisAddrStdouts == {<<"addr_genesis", "\n">>}

----------------------------------------------------------------------------
(* How a step ends *)

\* the steps that send_tx_genesis runs inside its try block
TrySteps ==
  {"build_estimate", "refresh_pparams", "load_pparams", "calculate_min_fee",
   "build_tx", "sign_tx", "submit_tx"}

InTry(c) ==
  /\ op[c] \in {"send_tx_genesis", "submit_update_proposal"}
  /\ pc[c] \in TrySteps

\* send_tx_genesis, except CLIError as err: raise CLIError(f"Sending ... {err}")
send_tx_genesis_except(e, fr) ==
  [e EXCEPT !.wrapped = TRUE,
            !.context = [utxo |-> fr.utxo, txins |-> fr.txins, txouts |-> fr.txouts,
                         signing_keys |-> fr.signing_keys]]

\* a send_tx_genesis without its except clause
Raised_bare(c, e) == e

\* the exception that leaves the method when e is raised at the step c is in
Raised(c, e) ==
  IF InTry(c) /\ e.type = "CLIError" THEN send_tx_genesis_except(e, frame[c]) ELSE e

Raise(c, e) ==
  /\ pc' = [pc EXCEPT ![c] = IF op[c] = "__init__" THEN "failed" ELSE "done"]
  /\ err' = [err EXCEPT ![c] = Raised(c, e)]
  /\ UNCHANGED ret

Return(c, value) ==
  /\ pc' = [pc EXCEPT ![c] = "done"]
  /\ ret' = [ret EXCEPT ![c] = value]
  /\ UNCHANGED err

Goto(c, label) ==
  /\ pc' = [pc EXCEPT ![c] = label]
  /\ UNCHANGED <<ret, err>>

\* the subprocesses of r join the log of c, with the tags of the files they read
Spawn(c, r, out, reads) ==
  /\ spawned' = [spawned EXCEPT ![c] =
       @ \o [i \in 1..Len(r.started) |->
               [args |-> r.started[i].args,
                returncode |-> r.started[i].returncode,
                reads |-> reads]]]
  /\ proc' = [proc EXCEPT ![c] =
       [args |-> r.started[Len(r.started)].args,
        returncode |-> r.started[Len(r.started)].returncode,
        stdout |-> out.stdout, stderr |-> out.stderr]]

\* the positions at which a caller is inside no method
AtRest == {"new", "idle", "done", "failed"}

\* a method is invoked on an object at rest: what every call does
Fresh(c, name, fr) ==
  /\ pc[c] = "idle"
  /\ discipline = "sequential" => \A d \in Callers \ {c} : pc[d] \in AtRest
  /\ op' = [op EXCEPT ![c] = name]
  /\ frame' = [frame EXCEPT ![c] = fr]
  /\ UNCHANGED <<disk, files, discipline, self, spawned, proc, err>>

\* the caller has the result (ret or err) of the method that ended and goes on;
\* the frame of the method is gone, what it wrote is from now on old
caller_continues(c) ==
  /\ pc[c] = "done"
  /\ pc' = [pc EXCEPT ![c] = "idle"]
  /\ op' = [op EXCEPT ![c] = "none"]
  /\ files' = Expire(files, c)
  /\ frame' = [frame EXCEPT ![c] = NoFrame]
  /\ spawned' = [spawned EXCEPT ![c] = <<>>]
  /\ proc' = [proc EXCEPT ![c] = NoProc]
  /\ ret' = [ret EXCEPT ![c] = None]
  /\ err' = [err EXCEPT ![c] = NoError]
  /\ UNCHANGED <<disk, discipline, self>>

\* a method is invoked and runs up to its first subprocess, at `label`
Invoke(c, name, fr, label) ==
  /\ Fresh(c, name, fr)
  /\ Goto(c, label)

----------------------------------------------------------------------------
(* ClusterLib(network_magic, state_dir) *)

\* __init__ up to its first subprocess: the paths, check_state_dir, genesis.json
ClusterLib(c, network_magic, genesis) ==
  /\ pc[c] = "new"
  /\ op' = [op EXCEPT ![c] = "__init__"]
  /\ LET e == check_state_dir(disk)
     IN  IF e.type # "none"
         THEN /\ pc' = [pc EXCEPT ![c] = "failed"]
              /\ err' = [err EXCEPT ![c] = e]
              /\ UNCHANGED self
         ELSE /\ pc' = [pc EXCEPT ![c] = "get_genesis_addr"]
              /\ self' = [self EXCEPT ![c] = [@ EXCEPT !.network_magic = network_magic,
                                                       !.genesis = genesis]]
              /\ UNCHANGED err
  /\ UNCHANGED <<disk, files, discipline, frame, spawned, proc, ret>>

\* get_genesis_addr(self.genesis_utxo_vkey), and self.genesis_utxo_addr
get_genesis_addr(c, returncode, stdout, stderr) ==
  /\ pc[c] = "get_genesis_addr"
  /\ LET r == cli(get_genesis_addr_args(self[c].network_magic, genesis_utxo_vkey),
                  returncode, stdout, stderr)
     IN  /\ Spawn(c, r, r.out, <<>>)
         /\ IF r.raised
            THEN Raise(c, r.err) /\ UNCHANGED self
            ELSE /\ self' = [self EXCEPT ![c].genesis_utxo_addr = rstrip(r.out.stdout)]
                 /\ Goto(c, "refresh_pparams")
  /\ UNCHANGED <<disk, files, discipline, op, frame>>

\* refresh_pparams: the protocol-parameters query, which writes pparams.json
refresh_pparams(c, returncode, stderr) ==
  /\ pc[c] = "refresh_pparams"
  /\ LET r == cli(refresh_pparams_args(self[c].network_magic), returncode, <<>>, stderr)
     IN  /\ Spawn(c, r, r.out, <<>>)
         /\ IF r.raised
            THEN Raise(c, r.err) /\ UNCHANGED files
            ELSE /\ files' = Written(files, "pparams.json", c, "none", <<>>)
                 /\ Goto(c, "load_pparams")
  /\ UNCHANGED <<disk, discipline, op, self, frame>>

\* refresh_pparams: json.load of pparams.json into self.pparams; then the rest of
\* __init__, or the rest of estimate_fee up to calculate-min-fee
load_pparams(c) ==
  /\ pc[c] = "load_pparams"
  /\ self' = [self EXCEPT ![c].pparams = "loaded"]
  /\ IF op[c] = "__init__" THEN Return(c, None) ELSE Goto(c, "calculate_min_fee")
  /\ UNCHANGED <<disk, files, discipline, op, frame, spawned, proc>>

----------------------------------------------------------------------------
(* get_utxo *)

\* get_utxo: the utxo query, which writes utxo.json; called by the caller
\* ("get_utxo") and twice by send_tx_genesis (lines 417 and 428)
get_utxo(c, returncode, stderr, json) ==
  /\ pc[c] \in {"get_utxo", "get_utxo_417", "get_utxo_428"}
  /\ LET address == IF pc[c] = "get_utxo" THEN frame[c].address
                    ELSE self[c].genesis_utxo_addr
         r == cli(get_utxo_args(self[c].network_magic, address), returncode, <<>>, stderr)
     IN  /\ Spawn(c, r, r.out, <<>>)
         /\ IF r.raised
            THEN Raise(c, r.err) /\ UNCHANGED files
            ELSE /\ files' = Written(files, "utxo.json", c, "none", json)
                 /\ Goto(c, CASE pc[c] = "get_utxo" -> "load_utxo"
                              [] pc[c] = "get_utxo_417" -> "load_utxo_417"
                              [] pc[c] = "get_utxo_428" -> "load_utxo_428")
  /\ UNCHANGED <<disk, discipline, op, self, frame>>

\* send_tx_genesis, lines 429-433: the inputs, one per entry of the utxo
utxo_txins(utxo) ==
  [i \in 1..Len(utxo) |->
     LET txin == split(utxo[i][1], "#")
     IN  <<txin[1], txin[2], utxo[i][2].amount>>]

\* get_utxo: json.load of utxo.json, which holds `leftover` if it is an old
\* file; then the code of the caller up to its next subprocess
load_utxo(c, leftover) ==
  /\ pc[c] \in {"load_utxo", "load_utxo_417", "load_utxo_428"}
  /\ LET utxo == IF files["utxo.json"].tag = "old" THEN leftover
                 ELSE files["utxo.json"].data
     IN  CASE pc[c] = "load_utxo" ->
                Return(c, utxo) /\ UNCHANGED frame
           [] pc[c] = "load_utxo_417" ->
                \* lines 418-427: the first pass over the utxo, and the genesis key
                /\ frame' = [frame EXCEPT ![c] =
                     [@ EXCEPT !.utxo = utxo,
                               !.signing_keys = Append(@, genesis_utxo_skey)]]
                /\ Goto(c, "get_utxo_428")
           [] pc[c] = "load_utxo_428" ->
                /\ frame' = [frame EXCEPT ![c] =
                     [@ EXCEPT !.utxo = utxo, !.txins = utxo_txins(utxo)]]
                /\ Goto(c, "build_estimate")
  /\ UNCHANGED <<disk, files, discipline, op, self, spawned, proc>>

----------------------------------------------------------------------------
(* get_tx_fee and estimate_fee *)

\* the input file a build-raw opens
ProposalRead(proposal_file) == IF proposal_file # None THEN <<proposal_file>> ELSE <<>>

\* get_tx_fee up to estimate_fee: the zero-fee draft, written to tx.body_estimate
build_estimate(c, returncode, stderr) ==
  /\ pc[c] = "build_estimate"
  /\ LET fr == frame[c]
         r == cli(get_tx_fee_args(self[c].genesis_utxo_addr, fr.txins, fr.txouts,
                                  fr.certificates, fr.proposal_file),
                  returncode, <<>>, stderr)
         inputs == ProposalRead(fr.proposal_file)
     IN  /\ Spawn(c, r, r.out, Reads(files, inputs))
         /\ IF r.raised
            THEN Raise(c, r.err) /\ UNCHANGED <<files, frame>>
            ELSE /\ files' = Written(files, "tx.body_estimate", c, "none", <<>>)
                 /\ frame' = [frame EXCEPT ![c] =
                      [@ EXCEPT !.txbody_file = S("tx.body_estimate"),
                                !.counts = <<Len(fr.txins),
                                             Len(get_tx_fee_txouts(
                                                   self[c].genesis_utxo_addr, fr.txouts)),
                                             Len(fr.signing_keys), 0>>]]
                 /\ Goto(c, "refresh_pparams")
  /\ UNCHANGED <<disk, discipline, op, self>>

\* estimate_fee after refresh_pparams: calculate-min-fee and the parse of its stdout
estimate_fee(c, returncode, stdout, stderr) ==
  /\ pc[c] = "calculate_min_fee"
  /\ LET fr == frame[c]
         r == cli(estimate_fee_args(self[c].network_magic, fr.txbody_file,
                                    fr.counts[1], fr.counts[2], fr.counts[3], fr.counts[4]),
                  returncode, stdout, stderr)
         inputs == <<pparams_file, fr.txbody_file>>
         fee == estimate_fee_parse(r.out.stdout)
     IN  /\ Spawn(c, r, r.out, Reads(files, inputs))
         /\ IF r.raised
            THEN Raise(c, r.err) /\ UNCHANGED frame
            ELSE IF ~fee.ok
            THEN Raise(c, Error("ValueError", "invalid literal for int() with base 10",
                                <<>>, "", split(r.out.stdout, " ")[1]))
                 /\ UNCHANGED frame
            ELSE IF op[c] = "estimate_fee"
            THEN Return(c, fee.val) /\ UNCHANGED frame
            ELSE /\ frame' = [frame EXCEPT ![c].fee = fee.val]
                 /\ Goto(c, "build_tx")
  /\ UNCHANGED <<disk, files, discipline, op, self>>

----------------------------------------------------------------------------
(* build_tx, sign_tx, submit_tx *)

\* a build_tx whose build-raw leaves no file behind
build_tx_writes_nothing(c, returncode, stderr) ==
  /\ pc[c] = "build_tx"
  /\ LET fr == frame[c]
         out_file == IF op[c] = "build_tx" THEN fr.out_file ELSE S("tx.body")
         r == cli(build_tx_args(self[c].genesis_utxo_addr, out_file, fr.txins, fr.txouts,
                                fr.certificates, fr.fee, fr.proposal_file),
                  returncode, <<>>, stderr)
         inputs == ProposalRead(fr.proposal_file)
     IN  /\ Spawn(c, r, r.out, Reads(files, inputs))
         /\ IF r.raised
            THEN Raise(c, r.err)
            ELSE IF op[c] = "build_tx" THEN Return(c, None) ELSE Goto(c, "sign_tx")
  /\ UNCHANGED <<disk, files, discipline, op, self, frame>>

build_tx(c, returncode, stderr) ==
  /\ pc[c] = "build_tx"
  /\ LET fr == frame[c]
         out_file == IF op[c] = "build_tx" THEN fr.out_file ELSE S("tx.body")
         r == cli(build_tx_args(self[c].genesis_utxo_addr, out_file, fr.txins, fr.txouts,
                                fr.certificates, fr.fee, fr.proposal_file),
                  returncode, <<>>, stderr)
         inputs == ProposalRead(fr.proposal_file)
     IN  /\ Spawn(c, r, r.out, Reads(files, inputs))
         /\ IF r.raised
            THEN Raise(c, r.err) /\ UNCHANGED files
            ELSE /\ files' = Written(files, out_file[1], c, "none", <<>>)
                 /\ IF op[c] = "build_tx" THEN Return(c, None) ELSE Goto(c, "sign_tx")
  /\ UNCHANGED <<disk, discipline, op, self, frame>>

\* a sign_tx that goes on to submit_tx whatever the exit code of the sign
sign_tx_unchecked(c, returncode, stderr) ==
  /\ pc[c] = "sign_tx"
  /\ LET tx_body_file == S("tx.body")
         out_file == S("tx.signed")
         r == cli(sign_tx_args(self[c].network_magic, tx_body_file, out_file,
                               frame[c].signing_keys),
                  returncode, <<>>, stderr)
         inputs == <<tx_body_file>>
     IN  /\ Spawn(c, r, r.out, Reads(files, inputs))
         /\ files' = IF r.raised THEN files
                     ELSE Written(files, out_file[1], c, files[tx_body_file[1]].tag, <<>>)
         /\ Goto(c, "submit_tx")
  /\ UNCHANGED <<disk, discipline, op, self, frame>>

\* sign_tx(signing_keys=signing_keys): tx.body in, tx.signed out
sign_tx(c, returncode, stderr) ==
  /\ pc[c] = "sign_tx"
  /\ LET tx_body_file == S("tx.body")
         out_file == S("tx.signed")
         r == cli(sign_tx_args(self[c].network_magic, tx_body_file, out_file,
                               frame[c].signing_keys),
                  returncode, <<>>, stderr)
         inputs == <<tx_body_file>>
     IN  /\ Spawn(c, r, r.out, Reads(files, inputs))
         /\ IF r.raised
            THEN Raise(c, r.err) /\ UNCHANGED files
            ELSE /\ files' = Written(files, out_file[1], c, files[tx_body_file[1]].tag, <<>>)
                 /\ Goto(c, "submit_tx")
  /\ UNCHANGED <<disk, discipline, op, self, frame>>

\* submit_tx(): tx.signed in
submit_tx(c, returncode, stderr) ==
  /\ pc[c] = "submit_tx"
  /\ LET tx_file == S("tx.signed")
         r == cli(submit_tx_args(self[c].network_magic, tx_file), returncode, <<>>, stderr)
         inputs == <<tx_file>>
     IN  /\ Spawn(c, r, r.out, <<files[tx_file[1]].tag, files[tx_file[1]].src>>)
         /\ IF r.raised THEN Raise(c, r.err) ELSE Return(c, None)
  /\ UNCHANGED <<disk, files, discipline, op, self, frame>>

----------------------------------------------------------------------------
(* get_payment_address *)

\* get_payment_address up to its subprocess: the exception it raises before any
\* subprocess, or the arguments of `address build`
get_payment_address_args(network_magic, payment_vkey, stake_vkey) ==
  IF payment_vkey = None
  THEN [err |-> Error("CLIError", "Must set payment key.", <<>>, "", None),
        args |-> <<>>]
  ELSE IF stake_vkey # None
  THEN \* cli_args.extend("--stake-verification-key-file", str(stake_vkey))
       [err |-> Error("TypeError", "extend() takes exactly one argument (2 given)",
                      <<>>, "", None),
        args |-> <<>>]
  ELSE [err |-> NoError,
        args |-> <<S("cardano-cli"), S("shelley"), S("address"), S("build"),
                   S("--testnet-magic"), ToStr(network_magic)>>
                   \o <<S("--payment-verification-key-file"), payment_vkey>>]

get_payment_address(c, returncode, stdout, stderr) ==
  /\ pc[c] = "address_build"
  /\ LET glue == get_payment_address_args(self[c].network_magic, frame[c].payment_vkey,
                                          frame[c].stake_vkey)
         r == cli(glue.args, returncode, stdout, stderr)
     IN  IF glue.err.type # "none"
         THEN Raise(c, glue.err) /\ UNCHANGED <<spawned, proc>>
         ELSE /\ Spawn(c, r, r.out, <<>>)
              /\ IF r.raised THEN Raise(c, r.err) ELSE Return(c, rstrip(r.out.stdout))
  /\ UNCHANGED <<disk, files, discipline, op, self, frame>>

----------------------------------------------------------------------------
(* submit_update_proposal *)

\* get_current_epoch_no: int(tip["slotNo"] / self.epoch_length)
get_current_epoch_no(tip, epoch_length) == tip.slotNo \div epoch_length

\* get_tip, for the --epoch argument of submit_update_proposal when the caller
\* gave no epoch
get_tip(c, returncode, stdout, stderr) ==
  /\ pc[c] = "get_tip"
  /\ LET r == cli(get_tip_args(self[c].network_magic), returncode, stdout, stderr)
     IN  /\ Spawn(c, r, r.out, <<>>)
         /\ IF r.raised
            THEN Raise(c, r.err) /\ UNCHANGED frame
            ELSE /\ frame' = [frame EXCEPT ![c].epoch =
                      get_current_epoch_no(r.out.stdout, self[c].genesis.epochLength)]
                 /\ Goto(c, "create_update_proposal")
  /\ UNCHANGED <<disk, files, discipline, op, self>>

create_update_proposal_args(cli_args, epoch) ==
  <<S("cardano-cli"), S("shelley"), S("governance"), S("create-update-proposal")>>
    \o cli_args
    \o <<S("--out-file"), S("update.proposal"), S("--epoch"), ToStr(epoch),
         S("--genesis-verification-key-file"), genesis_vkey>>

\* submit_update_proposal: create-update-proposal, then the call of
\* send_tx_genesis(proposal_file="update.proposal", signing_keys=[delegate_skey])
create_update_proposal(c, returncode, stderr) ==
  /\ pc[c] = "create_update_proposal"
  /\ LET r == cli(create_update_proposal_args(frame[c].cli_args, frame[c].epoch),
                  returncode, <<>>, stderr)
     IN  /\ Spawn(c, r, r.out, <<>>)
         /\ IF r.raised
            THEN Raise(c, r.err) /\ UNCHANGED <<files, frame>>
            ELSE /\ files' = Written(files, "update.proposal", c, "none", <<>>)
                 /\ frame' = [frame EXCEPT ![c] =
                      [@ EXCEPT !.proposal_file = S("update.proposal"),
                                !.signing_keys = <<delegate_skey>>,
                                !.txouts = <<>>, !.certificates = <<>>]]
                 /\ Goto(c, "get_utxo_417")
  /\ UNCHANGED <<disk, discipline, op, self>>

----------------------------------------------------------------------------
(* The calls *)

call_get_utxo(c, address) ==
  /\ Invoke(c, "get_utxo", [NoFrame EXCEPT !.address = address],
            "get_utxo")

call_get_payment_address(c, payment_vkey, stake_vkey) ==
  /\ Invoke(c, "get_payment_address",
            [NoFrame EXCEPT !.payment_vkey = payment_vkey, !.stake_vkey = stake_vkey],
            "address_build")

call_estimate_fee(c, txbody_file, txins, txouts, witnesses, byron_witnesses) ==
  /\ Invoke(c, "estimate_fee",
            [NoFrame EXCEPT !.txbody_file = txbody_file,
                            !.counts = <<txins, txouts, witnesses, byron_witnesses>>],
            "refresh_pparams")

call_build_tx(c, out_file, txins, txouts, certificates, fee, proposal_file) ==
  /\ Invoke(c, "build_tx",
            [NoFrame EXCEPT !.out_file = out_file, !.txins = txins, !.txouts = txouts,
                            !.certificates = certificates, !.fee = fee,
                            !.proposal_file = proposal_file],
            "build_tx")

call_send_tx_genesis(c, txouts, certificates, signing_keys, proposal_file) ==
  /\ Invoke(c, "send_tx_genesis",
            [NoFrame EXCEPT !.txouts = txouts, !.certificates = certificates,
                            !.signing_keys = signing_keys,
                            !.proposal_file = proposal_file],
            "get_utxo_417")

call_submit_update_proposal(c, cli_args, epoch) ==
  /\ Invoke(c, "submit_update_proposal",
            [NoFrame EXCEPT !.cli_args = cli_args, !.epoch = epoch],
            \* str(epoch or self.get_current_epoch_no())
            IF epoch = 0 THEN "get_tip" ELSE "create_update_proposal")

\* the static method: no subprocess, the result at once
call_prepend_flag(c, flag, contents) ==
  /\ Fresh(c, "prepend_flag", [NoFrame EXCEPT !.flag = flag, !.contents = contents])
  /\ Return(c, prepend_flag(flag, contents))

----------------------------------------------------------------------------
(* Inputs *)

Amounts == {1, MaxAmount}

TxOuts == {<<S("addr_a"), a>> : a \in {0, MaxAmount}}

TxOutLists == SeqsUpTo(TxOuts, MaxTxOuts)

\* the keys of the utxo JSON, "txhash#index"
UtxoKeys == {<<"h1", "#", "0">>, <<"h2", "#", "1">>}

\* what the utxo query may write: a JSON object, its keys distinct
UtxoJsons ==
  {u \in SeqsUpTo({<<<<"h1", "#", "0">>, [amount |-> a]>> : a \in Amounts}
                    \cup {<<<<"h2", "#", "1">>, [amount |-> 1]>>},
                  Cardinality(UtxoKeys)) :
     \A i, j \in 1..Len(u) : u[i][1] = u[j][1] => i = j}

\* inputs (txhash, index, amount) given to build_tx by its caller
TxIns == {<<S("h1"), S("0"), a>> : a \in Amounts} \cup {<<S("h2"), S("1"), 1>>}

TxInLists == SeqsUpTo(TxIns, MaxTxIns)

\* certificates and proposal file given to build_tx by its caller
BuildArgs ==
  {[certificates |-> <<>>, proposal_file |-> None],
   [certificates |-> <<S("stake.cert")>>, proposal_file |-> S("update.proposal")]}

\* certificates and signing keys given to send_tx_genesis by its caller
SendArgs ==
  {[certificates |-> <<>>, signing_keys |-> <<>>],
   [certificates |-> <<S("stake.cert")>>, signing_keys |-> <<S("stake.skey")>>]}

\* what calculate-min-fee may print
FeeStdouts == SeqsUpTo({"1", " ", "\t", "\n"}, MaxStdoutLen)

\* what `address build` may print
AddressStdouts == {<<"addr_p", "\n">>}

\* what the tip query may print, as the JSON document json.loads makes of it
Tips == {[slotNo |-> n] : n \in 0..MaxSlot}

VkeyFiles == {None, S("pay.vkey")}

Flags == {S("--x")}

ItemLists == SeqsUpTo({S("a"), S("b")}, MaxItems)

----------------------------------------------------------------------------
(* One client, used sequentially *)

Init ==
  /\ disk \in {[state_dir |-> FALSE, present |-> {}]}
          \cup {[state_dir |-> TRUE, present |-> P] :
                  P \in SUBSET {RequiredFiles[i] : i \in 1..Len(RequiredFiles)}}
  /\ files = [f \in FileNames |-> File("old", "none", <<>>)]
  /\ discipline = "sequential"
  /\ pc = [c \in Callers |-> "new"]
  /\ op = [c \in Callers |-> "none"]
  /\ self = [c \in Callers |-> NoSelf]
  /\ frame = [c \in Callers |-> NoFrame]
  /\ spawned = [c \in Callers |-> <<>>]
  /\ proc = [c \in Callers |-> NoProc]
  /\ ret = [c \in Callers |-> None]
  /\ err = [c \in Callers |-> NoError]

\* how a subprocess may end: it exits 0 and has printed one of Outs, or it exits
\* non-zero and has written to stderr.  (What a successful process writes to
\* stderr and a failed one to stdout is read by none of the methods modelled.)
Exits(Outs) ==
  {[returncode |-> 0, stdout |-> o, stderr |-> ""] : o \in Outs}
    \cup {[returncode |-> rc, stdout |-> <<>>, stderr |-> e] :
            rc \in ReturnCodes \ {0}, e \in Stderrs}

\* the constructor
Construct(c) ==
  \/ \E m \in NetworkMagics, g \in Genesis : ClusterLib(c, m, g)
  \/ \E x \in Exits(GenesisAddrStdouts) :
       get_genesis_addr(c, x.returncode, x.stdout, x.stderr)

\* the methods a caller invokes, with their arguments
Calls(c) ==
  \/ \E a \in {S("addr_a")} : call_get_utxo(c, a)
  \/ \E p \in VkeyFiles, k \in VkeyFiles : call_get_payment_address(c, p, k)
  \/ call_estimate_fee(c, S("tx.body"), 1, 1, 1, 0)
  \/ /\ pc[c] = "idle"
     /\ \E i \in TxInLists, o \in TxOutLists, f \in 0..MaxFee, a \in BuildArgs :
          call_build_tx(c, S("tx.body"), i, o, a.certificates, f, a.proposal_file)
  \/ \E o \in TxOutLists, a \in SendArgs :
       call_send_tx_genesis(c, o, a.certificates, a.signing_keys, None)
  \/ \E ep \in 0..1 :
       call_submit_update_proposal(c, <<S("--decentralization-parameter"), S("0.5")>>, ep)
  \/ \E f \in Flags, items \in ItemLists : call_prepend_flag(c, f, items)

\* the steps of the methods other than send_tx_genesis
Steps(c) ==
  \/ \E x \in Exits(AddressStdouts) :
       get_payment_address(c, x.returncode, x.stdout, x.stderr)
  \/ \E x \in Exits(Tips) : get_tip(c, x.returncode, x.stdout, x.stderr)
  \/ \E x \in Exits({<<>>}) : create_update_proposal(c, x.returncode, x.stderr)
  \/ caller_continues(c)

\* the steps of send_tx_genesis, some of them steps of other methods too
SendSteps(c, Jsons, Fees) ==
  \/ \E x \in Exits({<<>>}) : \E j \in IF x.returncode = 0 THEN Jsons ELSE {<<>>} :
       get_utxo(c, x.returncode, x.stderr, j)
  \/ \E j \in Jsons : load_utxo(c, j)
  \/ \E x \in Exits({<<>>}) : build_estimate(c, x.returncode, x.stderr)
  \/ \E x \in Exits({<<>>}) : refresh_pparams(c, x.returncode, x.stderr)
  \/ load_pparams(c)
  \/ /\ pc[c] = "calculate_min_fee"
     /\ \E x \in Exits(Fees) : estimate_fee(c, x.returncode, x.stdout, x.stderr)
  \/ \E x \in Exits({<<>>}) : build_tx(c, x.returncode, x.stderr)
  \/ \E x \in Exits({<<>>}) : sign_tx(c, x.returncode, x.stderr)
  \/ \E x \in Exits({<<>>}) : submit_tx(c, x.returncode, x.stderr)

Next ==
  \/ Construct("c1")
  \/ Calls("c1")
  \/ Steps("c1")
  \/ SendSteps("c1", UtxoJsons, FeeStdouts)

Spec == Init /\ [][Next]_vars

----------------------------------------------------------------------------
(* Two callers in one working directory *)

\* a caller whose ClusterLib object has been constructed
Constructed ==
  [network_magic |-> 42, genesis |-> [slotLength |-> 1, epochLength |-> 2],
   genesis_utxo_addr |-> S("addr_genesis"), pparams |-> "loaded"]

RaceJsons == {<<<<<<"h1", "#", "0">>, [amount |-> 1]>>>>}

RaceFees == {<<"1">>}

\* both objects exist; the callers either take turns (no call begins while
\* another caller is inside a method) or call whenever they like
InitRace ==
  /\ disk = [state_dir |-> TRUE,
             present |-> {RequiredFiles[i] : i \in 1..Len(RequiredFiles)}]
  /\ files = [f \in FileNames |-> File("old", "none", <<>>)]
  /\ discipline \in {"sequential", "concurrent"}
  /\ pc = [c \in Callers |-> "idle"]
  /\ op = [c \in Callers |-> "none"]
  /\ self = [c \in Callers |-> Constructed]
  /\ frame = [c \in Callers |-> NoFrame]
  /\ spawned = [c \in Callers |-> <<>>]
  /\ proc = [c \in Callers |-> NoProc]
  /\ ret = [c \in Callers |-> None]
  /\ err = [c \in Callers |-> NoError]

NextRace ==
  \E c \in Callers :
    \/ call_send_tx_genesis(c, <<>>, <<>>, <<>>, None)
    \/ SendSteps(c, RaceJsons, RaceFees)
    \/ caller_continues(c)

SpecRace == InitRace /\ [][NextRace]_vars

----------------------------------------------------------------------------
(* What the claims are stated with *)

\* the two words that name the subcommand of an argument list
Subcommand(args) == IF Len(args) >= 4 THEN <<args[3][1], args[4][1]>> ELSE <<>>

\* the message of the CLIError that cli raises
CommandFailed == "An error occurred running a CLI command"

\* the required files, as a set
Required == {RequiredFiles[i] : i \in 1..Len(RequiredFiles)}

LastSpawned(c) == spawned[c][Len(spawned[c])]

----------------------------------------------------------------------------
(* C1 *)

\* C1: once the constructor has run on a state directory that is missing, or
\* that lacks any of the five required files, it has failed with the
\* configuration error (the CLIError of check_state_dir, naming what is missing)
\* and no subprocess has been started.
C1_MissingFilesFailBeforeAnyInvocation ==
  \A c \in Callers :
    (pc[c] # "new" /\ (~disk.state_dir \/ disk.present # Required)) =>
      /\ pc[c] = "failed"
      /\ err[c].type = "CLIError"
      /\ err[c].what \in {"The state dir doesn't exist.", "The file doesn't exist."}
      /\ err[c].what = "The file doesn't exist." => err[c].path \in Required \ disk.present
      /\ spawned[c] = <<>>

\* the constructor has failed on a directory in which exactly one file is missing
C1_Witness ==
  /\ pc["c1"] = "failed"
  /\ disk.state_dir
  /\ Cardinality(Required \ disk.present) = 1
  /\ err["c1"].path = delegate_skey

----------------------------------------------------------------------------
(* C2 *)

\* what one step of caller c does with a subprocess
C2_Step(c) ==
  spawned'[c] # spawned[c] /\ spawned'[c] # <<>> =>
    \* the subprocess is started once
    /\ Len(spawned'[c]) = Len(spawned[c]) + 1
    /\ SubSeq(spawned'[c], 1, Len(spawned[c])) = spawned[c]
    /\ spawned'[c][Len(spawned'[c])].args = proc'[c].args
    /\ spawned'[c][Len(spawned'[c])].returncode = proc'[c].returncode
    \* no subprocess follows one that failed
    /\ \A k \in 1..Len(spawned[c]) : spawned[c][k].returncode = 0
    \* exit code zero: cli returns, nothing of cli's is raised
    /\ proc'[c].returncode = 0 =>
         /\ err'[c].what # CommandFailed
         /\ op[c] = "get_payment_address" => ret'[c] = rstrip(proc'[c].stdout)
    \* any other exit code: the command error, with the arguments and stderr
    /\ proc'[c].returncode # 0 =>
         /\ pc'[c] \in {"done", "failed"}
         /\ err'[c].type = "CLIError"
         /\ err'[c].what = CommandFailed
         /\ err'[c].args = proc'[c].args
         /\ err'[c].stderr = proc'[c].stderr

\* C2: every invocation through cli (and so through query_cli) starts one
\* subprocess; if it exits with code zero cli returns what it captured, and if it
\* exits with any other code the command error is raised, carrying the arguments
\* and the captured stderr, and nothing is started again.
C2_CliOutcomes == [][\A c \in Callers : C2_Step(c)]_vars

\* a query has failed and the error carries what the tool wrote to stderr
C2_Witness ==
  /\ op["c1"] = "get_utxo"
  /\ pc["c1"] = "done"
  /\ Len(spawned["c1"]) = 1
  /\ Subcommand(proc["c1"].args) = <<"query", "utxo">>
  /\ proc["c1"].returncode # 0
  /\ err["c1"].what = CommandFailed
  /\ err["c1"].stderr = "boom"

----------------------------------------------------------------------------
(* C5 *)

\* C5: prepend_flag(flag, items) returns a list twice as long as items, with the
\* flag at every even position (counting from 0) and items[i] right after the
\* i-th flag; for no items it returns the empty list.
C5_PrependFlagInterleaves ==
  \A c \in Callers :
    (op[c] = "prepend_flag" /\ pc[c] = "done") =>
      LET items == frame[c].contents
      IN  /\ err[c] = NoError
          /\ Len(ret[c]) = 2 * Len(items)
          /\ \A i \in 1..Len(items) :
               /\ ret[c][2 * i - 1] = frame[c].flag
               /\ ret[c][2 * i] = items[i]
          /\ items = <<>> => ret[c] = <<>>

\* prepend_flag has returned for a list of MaxItems items, not all the same
C5_Witness ==
  /\ op["c1"] = "prepend_flag"
  /\ pc["c1"] = "done"
  /\ Len(frame["c1"].contents) = MaxItems
  /\ frame["c1"].contents[1] # frame["c1"].contents[2]
  /\ Len(ret["c1"]) = 2 * MaxItems

----------------------------------------------------------------------------
(* C3, C10 *)

\* the subprocesses of c that build_tx started: a build-raw that does not write
\* the draft of get_tx_fee
BuiltByBuildTx(c) ==
  {k \in 1..Len(spawned[c]) :
     /\ Subcommand(spawned[c][k].args) = <<"transaction", "build-raw">>
     /\ values_of(spawned[c][k].args, S("--out-file")) # <<S("tx.body_estimate")>>}

\* the amount at the end of a "--tx-out" value, address+amount
AmountOf(txout) == int(split(txout, "+")[2]).val

\* C3: the "--tx-out" values build_tx hands to the tool are the caller's outputs,
\* in the caller's order, and then one more: the genesis UTXO address with the
\* sum of the input amounts minus the fee.
C3_ChangeIsInputMinusFee ==
  \A c \in Callers : \A k \in BuiltByBuildTx(c) :
    LET args == spawned[c][k].args
        outs == values_of(args, S("--tx-out"))
        given == frame[c].txouts
        ins == frame[c].txins
        change == outs[Len(outs)]
    IN  /\ Len(outs) = Len(given) + 1
        /\ \A i \in 1..Len(given) : outs[i] = given[i][1] \o <<"+">> \o ToStr(given[i][2])
        /\ split(change, "+")[1] = self[c].genesis_utxo_addr
        /\ AmountOf(change) = SumSeq([i \in 1..Len(ins) |-> ins[i][3]]) - frame[c].fee
        /\ values_of(args, S("--fee")) = <<ToStr(frame[c].fee)>>

\* build_tx has run for two inputs, two outputs of different amounts and a fee
C3_Witness ==
  /\ op["c1"] = "build_tx"
  /\ pc["c1"] = "done"
  /\ BuiltByBuildTx("c1") # {}
  /\ Len(frame["c1"].txins) = 2
  /\ Len(frame["c1"].txouts) = 2
  /\ frame["c1"].txouts[1][2] # frame["c1"].txouts[2][2]
  /\ frame["c1"].fee = 1

\* C10: in every transaction build_tx has the tool build, the amounts of all
\* outputs, change included, and the fee add up to the amounts of the inputs.
C10_ValueConserved ==
  \A c \in Callers : \A k \in BuiltByBuildTx(c) :
    LET outs == values_of(spawned[c][k].args, S("--tx-out"))
        ins == frame[c].txins
    IN  SumSeq([i \in 1..Len(outs) |-> AmountOf(outs[i])]) + frame[c].fee
          = SumSeq([i \in 1..Len(ins) |-> ins[i][3]])

----------------------------------------------------------------------------
(* C4 *)

\* the characters of s before its first whitespace character
RECURSIVE LeadingToken(_)
LeadingToken(s) ==
  IF s = <<>> \/ Head(s) \in Whitespace THEN <<>>
  ELSE <<Head(s)>> \o LeadingToken(Tail(s))

IsDecimal(s) == s # <<>> /\ \A i \in 1..Len(s) : IsDigit(s[i])

\* C4: when calculate-min-fee has exited 0 with a stdout that begins with a
\* decimal number, ended by a space, a tab, a newline or the end of the output,
\* estimate_fee returns that number.
C4_FeeIsLeadingToken ==
  \A c \in Callers :
    ( /\ op[c] = "estimate_fee"
      /\ pc[c] = "done"
      /\ spawned[c] # <<>>
      /\ Subcommand(proc[c].args) = <<"transaction", "calculate-min-fee">>
      /\ proc[c].returncode = 0
      /\ IsDecimal(LeadingToken(proc[c].stdout)) ) =>
        /\ err[c] = NoError
        /\ ret[c] = DecimalValue(LeadingToken(proc[c].stdout))

----------------------------------------------------------------------------
(* C7 *)

\* C7: get_payment_address without a payment key raises the command error and
\* starts nothing; with a payment key it starts `address build` once, with the
\* payment key, and with the stake key too when one is given, and returns the
\* address the tool printed.
C7_PaymentAddress ==
  \A c \in Callers :
    (op[c] = "get_payment_address" /\ pc[c] = "done") =>
      LET payment_vkey == frame[c].payment_vkey
          stake_vkey == frame[c].stake_vkey
      IN  /\ payment_vkey = None =>
               /\ err[c].type = "CLIError"
               /\ err[c].what = "Must set payment key."
               /\ spawned[c] = <<>>
          /\ payment_vkey # None =>
               /\ Len(spawned[c]) = 1
               /\ Subcommand(spawned[c][1].args) = <<"address", "build">>
               /\ values_of(spawned[c][1].args, S("--payment-verification-key-file"))
                    = <<payment_vkey>>
               /\ values_of(spawned[c][1].args, S("--stake-verification-key-file"))
                    = (IF stake_vkey # None THEN <<stake_vkey>> ELSE <<>>)
               /\ proc[c].returncode = 0 =>
                    err[c] = NoError /\ ret[c] = rstrip(proc[c].stdout)

----------------------------------------------------------------------------
(* C6 *)

\* the subcommands send_tx_genesis runs inside its try block
TrySubcommands ==
  {<<"transaction", "build-raw">>, <<"query", "protocol-parameters">>,
   <<"transaction", "calculate-min-fee">>, <<"transaction", "sign">>,
   <<"transaction", "submit">>}

\* the subcommands send_tx_genesis and submit_update_proposal run outside it
BareSubcommands ==
  {<<"query", "utxo">>, <<"query", "tip">>, <<"governance", "create-update-proposal">>}

Sending == {"send_tx_genesis", "submit_update_proposal"}

\* c is in send_tx_genesis or submit_update_proposal and the k-th subprocess of
\* the call has exited non-zero
FailedAt(c, k) ==
  /\ op[c] \in Sending
  /\ k \in 1..Len(spawned[c])
  /\ spawned[c][k].returncode # 0

\* what the except clause of send_tx_genesis adds to the command error
SendContext(c) ==
  /\ err[c].wrapped
  /\ err[c].context.utxo = frame[c].utxo
  /\ err[c].context.txins = utxo_txins(frame[c].utxo)
  /\ err[c].context.txouts = frame[c].txouts
  /\ err[c].context.signing_keys = frame[c].signing_keys
  /\ err[c].context.signing_keys[Len(err[c].context.signing_keys)] = genesis_utxo_skey

\* the command error of the k-th subprocess has ended the call: nothing was
\* started after it, and nothing before it had failed
EndedBy(c, k) ==
  /\ k = Len(spawned[c])
  /\ pc[c] = "done"
  /\ err[c].type = "CLIError"
  /\ err[c].what = CommandFailed
  /\ err[c].args = spawned[c][k].args
  /\ \A j \in 1..(k - 1) : spawned[c][j].returncode = 0

\* C6 as stated: whichever subprocess of send_tx_genesis or
\* submit_update_proposal exits non-zero, the utxo query and the proposal
\* creation included, the caller gets the command error with the context of
\* send_tx_genesis, and nothing is started after the failure.
C6_EveryFailureIsWrapped ==
  \A c \in Callers : \A k \in 1..Len(spawned[c]) :
    FailedAt(c, k) => EndedBy(c, k) /\ SendContext(c)

\* C6: a non-zero exit of the draft build, the protocol-parameters query, the
\* fee calculation, the final build, the sign or the submit reaches the caller
\* as the command error with the context of send_tx_genesis (utxo, inputs,
\* outputs, signing keys); a non-zero exit of either utxo query, of the tip
\* query or of create-update-proposal reaches the caller as the command error
\* alone.  In both cases the call ends there: no retry, nothing started after.
C6_FailuresInTryAreWrapped ==
  \A c \in Callers : \A k \in 1..Len(spawned[c]) :
    FailedAt(c, k) =>
      /\ EndedBy(c, k)
      /\ Subcommand(spawned[c][k].args) \in TrySubcommands \cup BareSubcommands
      /\ Subcommand(spawned[c][k].args) \in TrySubcommands => SendContext(c)
      /\ Subcommand(spawned[c][k].args) \in BareSubcommands =>
           ~err[c].wrapped /\ err[c].context = NoContext

\* submit_update_proposal has failed at the sign, after eight successful steps
C6_Witness ==
  /\ FailedAt("c1", Len(spawned["c1"]))
  /\ op["c1"] = "submit_update_proposal"
  /\ Subcommand(LastSpawned("c1").args) = <<"transaction", "sign">>
  /\ err["c1"].wrapped
  /\ err["c1"].stderr = "boom"

----------------------------------------------------------------------------
(* C8 *)

\* the subcommands of the subprocesses c has started, in the order started
Started(c) == [k \in 1..Len(spawned[c]) |-> Subcommand(spawned[c][k].args)]

IsPrefix(s, t) == Len(s) <= Len(t) /\ \A i \in 1..Len(s) : s[i] = t[i]

\* the steps as C8 lists them
StepsListed ==
  <<<<"query", "utxo">>, <<"transaction", "build-raw">>,
    <<"query", "protocol-parameters">>, <<"transaction", "calculate-min-fee">>,
    <<"transaction", "build-raw">>, <<"transaction", "sign">>,
    <<"transaction", "submit">>>>

\* the steps as send_tx_genesis runs them: the utxo query comes twice
StepsRun == <<<<"query", "utxo">>>> \o StepsListed

\* C8 as stated: the subprocesses of a run of send_tx_genesis are, in this
\* order and each at most once, utxo query, draft build, protocol-parameters
\* query, calculate-min-fee, final build, sign, submit.
C8_EachStepAtMostOnce ==
  \A c \in Callers : op[c] = "send_tx_genesis" => IsPrefix(Started(c), StepsListed)

\* C8: the subprocesses of a run of send_tx_genesis are, in this order, the
\* utxo query twice and then, each at most once, the zero-fee draft build (to
\* tx.body_estimate), the protocol-parameters query, calculate-min-fee, the
\* final build with the estimated fee (to tx.body), sign and submit.  Each is
\* started only after all earlier ones exited 0.  calculate-min-fee reads the
\* pparams.json and the draft written in this run, sign the tx.body built in
\* this run, submit the tx.signed signed in this run from that tx.body.
C8_StepsInOrder ==
  \A c \in Callers : op[c] = "send_tx_genesis" =>
    /\ IsPrefix(Started(c), StepsRun)
    /\ \A k \in 1..(Len(spawned[c]) - 1) : spawned[c][k].returncode = 0
    /\ \A k \in 1..Len(spawned[c]) :
         LET p == spawned[c][k]
         IN  /\ k = 3 => /\ values_of(p.args, S("--fee")) = <<S("0")>>
                         /\ values_of(p.args, S("--out-file")) = <<S("tx.body_estimate")>>
             /\ k = 5 => p.reads = <<c, c>>
             /\ k = 6 => /\ values_of(p.args, S("--fee")) = <<ToStr(frame[c].fee)>>
                         /\ values_of(p.args, S("--out-file")) = <<S("tx.body")>>
             /\ k = 7 => p.reads = <<c>>
             /\ k = 8 => p.reads = <<c, c>>

\* a run of send_tx_genesis has gone through to a successful submit
C8_Witness ==
  /\ op["c1"] = "send_tx_genesis"
  /\ pc["c1"] = "done"
  /\ err["c1"] = NoError
  /\ Started("c1") = StepsRun
  /\ LastSpawned("c1").returncode = 0
  /\ frame["c1"].fee = 1

----------------------------------------------------------------------------
(* C9 *)

Other(c) == CHOOSE d \in Callers : d # c

\* the k-th subprocess of c is a sign or a submit
SignOrSubmit(c, k) ==
  Subcommand(spawned[c][k].args) \in {<<"transaction", "sign">>, <<"transaction", "submit">>}

\* C9: when the callers take turns, every sign of a run of send_tx_genesis
\* reads the tx.body the same run built, and every submit the tx.signed the
\* same run signed from that tx.body.  (That two callers who do not take turns
\* can sign and submit each other's files is the state C9_Witness describes.)
C9_SequentialRunsReadTheirOwn ==
  discipline = "sequential" =>
    \A c \in Callers : \A k \in 1..Len(spawned[c]) :
      /\ Subcommand(spawned[c][k].args) = <<"transaction", "sign">> =>
           spawned[c][k].reads = <<c>>
      /\ Subcommand(spawned[c][k].args) = <<"transaction", "submit">> =>
           spawned[c][k].reads = <<c, c>>

\* two concurrent runs: c1 has signed the tx.body that c2 built, and has
\* submitted, with success, what it signed
C9_Witness ==
  /\ discipline = "concurrent"
  /\ Len(spawned["c1"]) = 8
  /\ spawned["c1"][7].reads = <<Other("c1")>>
  /\ spawned["c1"][8].reads = <<"c1", Other("c1")>>
  /\ spawned["c1"][8].returncode = 0
  /\ err["c1"] = NoError

====
